---- MODULE Spec2Model ----
(***************************************************************************)
(* CareerCompass-AI client: the text normalizers applied to AI prose       *)
(* (chat, salary insights, interview prep, cover letter), the request      *)
(* handlers of the five sections of the page, and the match result (score  *)
(* bands, overall score, match percentage) the Analysis section shows.     *)
(*                                                                         *)
(* A string is a sequence of one-character strings.  The HTML produced by  *)
(* textToHtmlParagraphs is a sequence of fragments whose concatenation is  *)
(* the HTML string: the characters of the text, and the tags the function  *)
(* writes, each tag one fragment.                                          *)
(***************************************************************************)
EXTENDS Integers, Sequences, FiniteSets, Bags

VARIABLES
    \* a normalizer at work
    text,       \* the raw string handed to a normalizer
    variant,    \* which normalizer was applied to text ("none" before)
    out,        \* the normalizer's output for text
    again,      \* the same normalizer applied to out
    stage,      \* "raw" before the call, "done" after it
    \* the match result at work
    scoreIn,    \* what is scored or shown: a score, a breakdown, keyword counts
    scoreOut,   \* what came of it
    \* the page (part_001) and its sections
    activeTab,                  \* Home.activeTab: the one mounted section
    crashed,                    \* a render threw: the page is gone
    analysisJobRequirement,     \* AnalysisSection.jobRequirement
    isAnalyzing,                \* AnalysisSection.isAnalyzing
    analysisResult,             \* AnalysisSection.analysisResult
    coverJobRequirement,        \* CoverLetterSection.jobRequirement
    coverIsGenerating,          \* CoverLetterSection.isGenerating
    coverLetter,                \* CoverLetterSection.coverLetter
    interviewJobRequirement,    \* InterviewPrepSection.jobRequirement
    interviewIsGenerating,      \* InterviewPrepSection.isGenerating
    prepData,                   \* InterviewPrepSection.prepData
    salaryIsLoading,            \* SalaryInsightsSection.isLoading
    insights,                   \* SalaryInsightsSection.insights
    messages,                   \* ChatSection.messages
    input,                      \* ChatSection.input
    chatIsLoading,              \* ChatSection.isLoading
    inflight,   \* the bag of fetch calls awaiting their response
    event,      \* the last handler run: what it was and the toasts it showed
    salarySucceeded     \* a /salary_insights request has succeeded so far

normVars == <<text, variant, out, again, stage>>

scoreVars == <<scoreIn, scoreOut>>

analysisVars == <<analysisJobRequirement, isAnalyzing, analysisResult>>
coverVars == <<coverJobRequirement, coverIsGenerating, coverLetter>>
interviewVars == <<interviewJobRequirement, interviewIsGenerating, prepData>>
salaryVars == <<salaryIsLoading, insights>>
chatVars == <<messages, input, chatIsLoading>>

pageVars == <<activeTab, crashed, analysisVars, coverVars, interviewVars,
              salaryVars, chatVars, inflight, event, salarySucceeded>>

vars == <<normVars, scoreVars, pageVars>>

----------------------------------------------------------------------------
(* Bounds of the normalizer inputs *)

MaxLen == 4

Letters == {"a"}
Digits == {"1"}
Alphabet == Letters \cup Digits \cup {"*", "_", "#", "-", "+", ".", ">", " ", "\n", "\r"}

\* the strings of at most max characters of alphabet
StringsOver(alphabet, max) == UNION {[1..n -> alphabet] : n \in 0..max}

\* longer inputs over fewer characters: lines, blank lines and paragraphs
MaxLongLen == 6

LongAlphabet == Letters \cup {"*", "#", "-", " ", "\n"}

\* the block-mode scenario of the specification, "**Bold** text", four line
\* breaks, "Next para", every letter written "a"
BoldScenario ==
    <<"*", "*", "a", "*", "*", " ", "a", "\n", "\n", "\n", "\n", "a", " ", "a">>

\* a cover letter that holds an HTML tag
TagScenario == <<"<", "a", ">">>

ScenarioInputs == {BoldScenario, TagScenario}

\* what a normalizer is handed: every short string, every longer string of
\* the fewer characters, and the scenarios
IsInput(t) ==
    \/ t \in StringsOver(Alphabet, MaxLen)
    \/ t \in StringsOver(LongAlphabet, MaxLongLen)
    \/ t \in ScenarioInputs

----------------------------------------------------------------------------
(* Character classes of the regular expressions *)

\* \s of a JavaScript regular expression, and what String.prototype.trim strips
Whitespace == {" ", "\n", "\r"}

\* the characters after which ^ matches under the m flag
LineTerminators == {"\n", "\r"}

\* the class written [-+\w]: letters too
ListMarkerCharsWord == {"-", "+"} \cup Digits \cup Letters

\* the class [-+\d]
ListMarkerChars == {"-", "+"} \cup Digits

RECURSIVE RunLen(_, _, _)
\* length of the longest run of characters of class that starts at s[i]
RunLen(s, i, class) ==
    IF i <= Len(s) /\ s[i] \in class THEN 1 + RunLen(s, i + 1, class) ELSE 0

Is(s, i, c) == i <= Len(s) /\ s[i] = c

\* ^ under the m flag: the start of the string or just after a line terminator
AtLineStart(s, i) == i = 1 \/ s[i - 1] \in LineTerminators

----------------------------------------------------------------------------
(* The regular expressions: the length of the match that starts at s[i],   *)
(* 0 when there is none (no expression here matches the empty string)      *)

\* /(\*\*|\*|__|_)/
EmphasisMatch(s, i) ==
    IF Is(s, i, "*") THEN (IF Is(s, i + 1, "*") THEN 2 ELSE 1)
    ELSE IF Is(s, i, "_") THEN (IF Is(s, i + 1, "_") THEN 2 ELSE 1)
    ELSE 0

\* /(\*\*|\*)/
StarMatch(s, i) ==
    IF Is(s, i, "*") THEN (IF Is(s, i + 1, "*") THEN 2 ELSE 1) ELSE 0

\* /^#+\s*/m
HeadingMatch(s, i) ==
    IF AtLineStart(s, i) /\ Is(s, i, "#")
    THEN LET h == RunLen(s, i, {"#"})
         IN  h + RunLen(s, i + h, Whitespace)
    ELSE 0

\* /^(\s*[-+\d]+\.?)\s*/m
ListMatch(s, i) ==
    IF ~AtLineStart(s, i) THEN 0
    ELSE LET w == RunLen(s, i, Whitespace)
             r == RunLen(s, i + w, ListMarkerChars)
             d == IF Is(s, i + w + r, ".") THEN 1 ELSE 0
         IN  IF r = 0 THEN 0
             ELSE w + r + d + RunLen(s, i + w + r + d, Whitespace)

\* /^>\s*/m
QuoteMatch(s, i) ==
    IF AtLineStart(s, i) /\ Is(s, i, ">")
    THEN 1 + RunLen(s, i + 1, Whitespace)
    ELSE 0

\* one repetition of (\r?\n) at s[i]: its length, 0 when it does not match
LineBreakAt(s, i) ==
    IF Is(s, i, "\r") /\ Is(s, i + 1, "\n") THEN 2
    ELSE IF Is(s, i, "\n") THEN 1
    ELSE 0

RECURSIVE LineBreakRun(_, _)
\* <<number of repetitions of (\r?\n) from s[i], their total length>>
LineBreakRun(s, i) ==
    LET b == LineBreakAt(s, i)
    IN  IF b = 0 THEN <<0, 0>>
        ELSE LET rest == LineBreakRun(s, i + b)
             IN  <<1 + rest[1], b + rest[2]>>

\* the quantifier written {4,}
NewlinesMatchFour(s, i) ==
    LET run == LineBreakRun(s, i)
    IN  IF run[1] >= 4 THEN run[2] ELSE 0

\* /(\r?\n){3,}/
NewlinesMatch(s, i) ==
    LET run == LineBreakRun(s, i)
    IN  IF run[1] >= 3 THEN run[2] ELSE 0

\* /\r?\n/
SingleBreakMatch(s, i) == LineBreakAt(s, i)

MatchLen(rule, s, i) ==
    CASE rule = "emphasis" -> EmphasisMatch(s, i)
      [] rule = "star"     -> StarMatch(s, i)
      [] rule = "heading"  -> HeadingMatch(s, i)
      [] rule = "list"     -> ListMatch(s, i)
      [] rule = "quote"    -> QuoteMatch(s, i)
      [] rule = "newlines" -> NewlinesMatch(s, i)
      [] rule = "break"    -> SingleBreakMatch(s, i)

\* a list marker replaced by a bullet instead of removed
ReplacementBullet(rule) ==
    CASE rule = "newlines" -> <<"\n", "\n">>
      [] rule = "break"    -> <<"<br>">>
      [] rule = "list"     -> <<"*", " ">>
      [] OTHER             -> <<>>

\* the second argument of String.prototype.replace for each rule
Replacement(rule) ==
    CASE rule = "newlines" -> <<"\n", "\n">>
      [] rule = "break"    -> <<"<br>">>
      [] OTHER             -> <<>>

RECURSIVE ReplaceFrom(_, _, _)
\* s.replace(/rule/g, Replacement(rule)), scanning from s[i]: a match is
\* replaced and the scan goes on after it, any other character is copied
ReplaceFrom(rule, s, i) ==
    IF i > Len(s) THEN <<>>
    ELSE LET m == MatchLen(rule, s, i)
         IN  IF m > 0
             THEN Replacement(rule) \o ReplaceFrom(rule, s, i + m)
             ELSE <<s[i]>> \o ReplaceFrom(rule, s, i + 1)

ReplaceAll(rule, s) == ReplaceFrom(rule, s, 1)

\* String.prototype.trim
Trim(s) ==
    LET lead == RunLen(s, 1, Whitespace)
        keep == {i \in 1..Len(s) : s[i] \notin Whitespace}
        last == IF keep = {} THEN 0 ELSE CHOOSE i \in keep : \A j \in keep : j <= i
    IN  IF keep = {} THEN <<>> ELSE SubSeq(s, lead + 1, last)

----------------------------------------------------------------------------
(* The normalizers *)

\* cleanResponseFormatting of the chat section
cleanResponseFormatting(t) ==
    IF t = <<>> THEN <<>>
    ELSE Trim(ReplaceAll("newlines",
              ReplaceAll("list", ReplaceAll("heading", ReplaceAll("star", t)))))

\* cleanText of the salary-insights section
salaryCleanText(t) ==
    IF t = <<>> THEN <<>>
    ELSE Trim(ReplaceAll("quote",
              ReplaceAll("list", ReplaceAll("heading", ReplaceAll("emphasis", t)))))

\* cleanText of the interview-prep section
interviewCleanText(t) ==
    IF t = <<>> THEN <<>>
    ELSE Trim(ReplaceAll("list", ReplaceAll("heading", ReplaceAll("emphasis", t))))

\* the expression written /\r?\n\r?\n/: exactly two line breaks
ParagraphBreakMatchTwo(s, i) ==
    LET b == LineBreakAt(s, i)
        c == LineBreakAt(s, i + b)
    IN  IF b = 0 \/ c = 0 THEN 0 ELSE b + c

\* /\r?\n\s*\r?\n/ : the trailing \r? lies inside the greedy \s*, so the
\* match runs from the first line break to the last "\n" of the whitespace
\* that follows it
ParagraphBreakMatch(s, i) ==
    LET b == LineBreakAt(s, i)
        w == RunLen(s, i + b, Whitespace)
        nl == {j \in (i + b)..(i + b + w - 1) : s[j] = "\n"}
    IN  IF b = 0 \/ nl = {} THEN 0
        ELSE (CHOOSE j \in nl : \A k \in nl : k <= j) - i + 1

RECURSIVE SplitFrom(_, _, _)
\* s.split(/\r?\n\s*\r?\n/) from s[i], cur the piece collected so far
SplitFrom(s, i, cur) ==
    IF i > Len(s) THEN <<cur>>
    ELSE LET m == ParagraphBreakMatch(s, i)
         IN  IF m > 0
             THEN <<cur>> \o SplitFrom(s, i + m, <<>>)
             ELSE SplitFrom(s, i + 1, Append(cur, s[i]))

P_OPEN == "<p class=\"mb-4 leading-relaxed\">"
P_CLOSE == "</p>"

\* the contents of the <p> elements, in order
htmlParagraphs(t) ==
    LET cleanedText == Trim(ReplaceAll("emphasis", t))
        pieces == SplitFrom(cleanedText, 1, <<>>)
        kept == SelectSeq(pieces, LAMBDA p : Trim(p) # <<>>)
    IN  [k \in 1..Len(kept) |-> ReplaceAll("break", kept[k])]

RECURSIVE JoinParagraphs(_, _)
JoinParagraphs(ps, k) ==
    IF k > Len(ps) THEN <<>>
    ELSE <<P_OPEN>> \o ps[k] \o <<P_CLOSE>> \o JoinParagraphs(ps, k + 1)

\* textToHtmlParagraphs of the cover-letter section: the __html string
textToHtmlParagraphs(t) ==
    IF t = <<>> THEN <<>> ELSE JoinParagraphs(htmlParagraphs(t), 1)

InlineVariants == {"chat", "salary", "interview"}
Variants == InlineVariants \cup {"cover"}

Normalized(v, t) ==
    CASE v = "chat"      -> cleanResponseFormatting(t)
      [] v = "salary"    -> salaryCleanText(t)
      [] v = "interview" -> interviewCleanText(t)
      [] v = "cover"     -> textToHtmlParagraphs(t)


----------------------------------------------------------------------------
(* The page: values, bounds and what the sections share *)

\* the longest job description or chat input typed, and the characters typed
MaxJobLen == 1
JobChars == {" ", "j"}
JobTexts == UNION {[1..n -> JobChars] : n \in 0..MaxJobLen}

\* the most fetch calls awaiting a response at once
MaxInFlight == 2

\* the most messages the chat history holds
MaxMessages == 3

Sections == {"analysis", "chat", "cover-letter", "interview", "salary"}

Null == [kind |-> "null"]
Undefined == [kind |-> "undefined"]

\* the raw AI prose every text field of a payload carries
SampleRaw == <<"*", "*", "a", "_">>

NoEvent ==
    [op |-> "none", sec |-> "none", live |-> FALSE,
     outcome |-> [status |-> "none"], toasts |-> {}]

Submitted(sec, status, toasts) ==
    [op |-> "submit", sec |-> sec, live |-> TRUE,
     outcome |-> [status |-> status], toasts |-> toasts]

Responded(req, outcome, toasts) ==
    [op |-> "response", sec |-> req.sec, live |-> req.live,
     outcome |-> outcome, toasts |-> toasts]

\* the number of fetch calls awaiting their response
Pending == BagCardinality(inflight)

\* the response of req has come: it awaits no more
Settled(req) == inflight (-) SetToBag({req})

\* the requests of a section that is unmounted: what their responses set
\* is dropped
Orphaned ==
    LET dead == {[r EXCEPT !.live = FALSE] : r \in BagToSet(inflight)}
    IN  [d \in dead |->
            CopiesIn(d, inflight) + CopiesIn([d EXCEPT !.live = TRUE], inflight)]

\* the call issued twice: the request and a retry along with it
FetchTwice(sec, query) ==
    inflight (+) SetToBag({[sec |-> sec, live |-> TRUE, query |-> query]})
             (+) SetToBag({[sec |-> sec, live |-> TRUE, query |-> query]})

\* the query of a request that is not a chat request
NoQuery == <<>>

\* fetch(...): the call joins those awaiting a response; a chat request is
\* known by the query it carries, any other by its section
Fetch(sec, query) ==
    inflight (+) SetToBag({[sec |-> sec, live |-> TRUE, query |-> query]})

\* the check written !jobRequirement, without the trim
BlankWithoutTrim(jd) == jd = <<>>

\* !jobRequirement.trim()
Blank(jd) == Trim(jd) = <<>>

\* what a fetch can end with: it rejects, the status is not OK, or it is OK
\* and response.json() gives data
Outcomes(payloads) ==
    {[status |-> "networkError"], [status |-> "notOk"]}
        \cup {[status |-> "ok", data |-> d] : d \in payloads}

\* what a try block ended with: the result it stored (or left), the toasts
\* it showed, and whether it threw
Ended(result, toasts, threw) ==
    [result |-> result, toasts |-> toasts, threw |-> threw]

\* the catch block of every handler: one destructive toast
Caught(try) == IF try.threw THEN try.toasts \cup {"failure"} ELSE try.toasts

----------------------------------------------------------------------------
(* AnalysisSection *)

Scores == {55, 90}

\* data.results[0]: keyword_analysis tells whether the key is there
AnalysisEntries == [kind : {"result"}, score : Scores, keyword_analysis : BOOLEAN]

AnalysisPayloads ==
    {[kind |-> "noResults"]}
        \cup {[kind |-> "results", results |-> <<>>]}
        \cup {[kind |-> "results", results |-> <<e>>] : e \in AnalysisEntries}

\* the try block of handleAnalyze after the fetch, prev the result held
analysisTry(outcome, prev) ==
    IF outcome.status # "ok" THEN Ended(prev, {}, TRUE)
    ELSE IF outcome.data.kind = "noResults"
         THEN Ended(prev, {}, TRUE)          \* data.results[0] throws
    ELSE IF outcome.data.results = <<>>
         THEN Ended(Undefined, {}, TRUE)     \* stored, then .score throws
    ELSE Ended(outcome.data.results[1], {"success"}, FALSE)

\* the render reads analysisResult.keyword_analysis.matching_keywords
\* whenever analysisResult is truthy
analysisRenders(result) == result.kind = "result" => result.keyword_analysis

setAnalysisJobRequirement(jd) ==
    /\ ~crashed /\ activeTab = "analysis"
    /\ analysisJobRequirement' = jd
    /\ UNCHANGED <<normVars, scoreVars, salarySucceeded,
                   activeTab, crashed, isAnalyzing, analysisResult,
                   coverVars, interviewVars, salaryVars, chatVars, inflight, event>>

\* the Analyze button is disabled while isAnalyzing
handleAnalyze ==
    /\ ~crashed /\ activeTab = "analysis" /\ ~isAnalyzing
    /\ IF Blank(analysisJobRequirement)
       THEN /\ event' = Submitted("analysis", "rejected", {"validation"})
            /\ UNCHANGED <<isAnalyzing, inflight>>
       ELSE /\ Pending < MaxInFlight
            /\ isAnalyzing' = TRUE
            /\ inflight' = Fetch("analysis", NoQuery)
            /\ event' = Submitted("analysis", "accepted", {})
    /\ UNCHANGED <<normVars, scoreVars, salarySucceeded,
                   activeTab, crashed, analysisJobRequirement,
                   analysisResult, coverVars, interviewVars, salaryVars, chatVars>>

\* the rest of handleAnalyze once the fetch of request i has ended
analysisResponse(req, outcome) ==
    /\ ~crashed /\ BagIn(req, inflight) /\ req.sec = "analysis"
    /\ LET try == analysisTry(outcome, analysisResult)
       IN  /\ event' = Responded(req, outcome, Caught(try))
           /\ IF req.live
              THEN /\ analysisResult' = try.result
                   /\ isAnalyzing' = FALSE
                   /\ crashed' = ~analysisRenders(try.result)
              ELSE UNCHANGED <<analysisResult, isAnalyzing, crashed>>
    /\ inflight' = Settled(req)
    /\ UNCHANGED <<normVars, scoreVars, salarySucceeded,
                   activeTab, analysisJobRequirement,
                   coverVars, interviewVars, salaryVars, chatVars>>

----------------------------------------------------------------------------
(* The match result: the score bands of AnalysisSection, and the scorer    *)
(* behind /rate_resumes whose payload the section shows                    *)

Percent == 0..100
BonusRange == 0..10

\* the most keywords a job description has
MaxKeywords == 12

\* "round to nearest integer": a half goes up, or to the even neighbour
RoundingModes == {"halfUp", "halfEven"}

\* what is scored or shown: a score, a score breakdown with the rounding
\* of the scorer, or the keyword counts of an analysis
IsScoreInput(x) ==
    \/ x \in {[kind |-> "score", score |-> s] : s \in Percent}
    \/ x \in {[kind |-> "breakdown", skill_match |-> a, semantic_similarity |-> b,
                keyword_density_bonus |-> c, rounding |-> m] :
                  a \in Percent, b \in Percent, c \in BonusRange, m \in RoundingModes}
    \/ \E n \in 0..MaxKeywords :
          x \in {[kind |-> "keywords", total_matched |-> k,
                  total_job_keywords |-> n, rounding |-> m] :
                    k \in 0..n, m \in RoundingModes}

getScoreColor(score) ==
    IF score >= 85 THEN "text-green-600 dark:text-green-400"
    ELSE IF score >= 70 THEN "text-yellow-600 dark:text-yellow-400"
    ELSE IF score >= 50 THEN "text-orange-600 dark:text-orange-400"
    ELSE "text-red-600 dark:text-red-400"

\* the comparisons written with > for >=
getProgressColorStrict(score) ==
    IF score > 85 THEN "bg-green-600"
    ELSE IF score > 70 THEN "bg-yellow-600"
    ELSE IF score > 50 THEN "bg-orange-600"
    ELSE "bg-red-600"

getProgressColor(score) ==
    IF score >= 85 THEN "bg-green-600"
    ELSE IF score >= 70 THEN "bg-yellow-600"
    ELSE IF score >= 50 THEN "bg-orange-600"
    ELSE "bg-red-600"

\* num / den rounded to the nearest integer (num >= 0, den > 0)
RoundRatio(num, den, mode) ==
    LET q == num \div den
        r == num % den
    IN  IF 2 * r < den THEN q
        ELSE IF 2 * r > den THEN q + 1
        ELSE IF mode = "halfEven" /\ q % 2 = 0 THEN q
        ELSE q + 1

Clamp(x) == IF x < 0 THEN 0 ELSE IF x > 100 THEN 100 ELSE x

\* the bonus taken as a percentage already and nothing clamped
overallScoreUnscaled(b) ==
    RoundRatio(6 * b.skill_match + 3 * b.semantic_similarity
                   + 100 * b.keyword_density_bonus, 10, b.rounding)

\* score = round(0.6 skillMatch + 0.3 semanticSimilarity
\*               + (keywordDensityBonus / 10) 100 0.1), clamped to [0, 100]
overallScore(b) ==
    Clamp(RoundRatio(6 * b.skill_match + 3 * b.semantic_similarity
                         + 10 * b.keyword_density_bonus, 10, b.rounding))

\* matchPercentage = round(100 K / N), 0 when there is no job keyword
matchPercentage(c) ==
    IF c.total_job_keywords = 0 THEN 0
    ELSE RoundRatio(100 * c.total_matched, c.total_job_keywords, c.rounding)

\* the fallback written || 100
matchRateShownFull(match_percentage) ==
    IF match_percentage = 0 THEN 100 ELSE match_percentage

\* {analysisResult.keyword_analysis.match_percentage || 0}
matchRateShown(match_percentage) ==
    IF match_percentage = 0 THEN 0 ELSE match_percentage

\* the score card is rendered for a score
renderScore ==
    /\ scoreIn.kind = "score" /\ scoreOut.kind = "none"
    /\ scoreOut' = [kind |-> "colors",
                    scoreColor |-> getScoreColor(scoreIn.score),
                    progressColor |-> getProgressColor(scoreIn.score)]
    /\ UNCHANGED <<scoreIn, normVars, pageVars>>

\* the scorer combines a score breakdown
combineScore ==
    /\ scoreIn.kind = "breakdown" /\ scoreOut.kind = "none"
    /\ scoreOut' = [kind |-> "score", score |-> overallScore(scoreIn)]
    /\ UNCHANGED <<scoreIn, normVars, pageVars>>

\* the scorer computes the match percentage and the section shows it
showMatchRate ==
    /\ scoreIn.kind = "keywords" /\ scoreOut.kind = "none"
    /\ scoreOut' = [kind |-> "matchRate",
                    shown |-> matchRateShown(matchPercentage(scoreIn))]
    /\ UNCHANGED <<scoreIn, normVars, pageVars>>

----------------------------------------------------------------------------
(* CoverLetterSection *)

CoverPayloads == {[cover_letter |-> <<>>], [cover_letter |-> SampleRaw]}

\* the try block of handleGenerate after the fetch
coverTry(outcome, prev) ==
    IF outcome.status # "ok" THEN Ended(prev, {}, TRUE)
    ELSE IF outcome.data.cover_letter = <<>>
         THEN Ended(prev, {}, TRUE)          \* "Received empty cover letter"
    ELSE Ended(outcome.data.cover_letter, {"success"}, FALSE)

setCoverJobRequirement(jd) ==
    /\ ~crashed /\ activeTab = "cover-letter"
    /\ coverJobRequirement' = jd
    /\ UNCHANGED <<normVars, scoreVars, salarySucceeded,
                   activeTab, crashed, coverIsGenerating, coverLetter,
                   analysisVars, interviewVars, salaryVars, chatVars, inflight, event>>

\* the button is disabled while isGenerating or while the field is blank
coverHandleGenerate ==
    /\ ~crashed /\ activeTab = "cover-letter"
    /\ ~(coverIsGenerating \/ Blank(coverJobRequirement))
    /\ IF Blank(coverJobRequirement)
       THEN /\ event' = Submitted("cover-letter", "rejected", {"validation"})
            /\ UNCHANGED <<coverIsGenerating, coverLetter, inflight>>
       ELSE /\ Pending < MaxInFlight
            /\ coverIsGenerating' = TRUE
            /\ coverLetter' = <<>>
            /\ inflight' = Fetch("cover-letter", NoQuery)
            /\ event' = Submitted("cover-letter", "accepted", {})
    /\ UNCHANGED <<normVars, scoreVars, salarySucceeded,
                   activeTab, crashed, coverJobRequirement,
                   analysisVars, interviewVars, salaryVars, chatVars>>

coverResponse(req, outcome) ==
    /\ ~crashed /\ BagIn(req, inflight) /\ req.sec = "cover-letter"
    /\ LET try == coverTry(outcome, coverLetter)
       IN  /\ event' = Responded(req, outcome, Caught(try))
           /\ IF req.live
              THEN /\ coverLetter' = try.result
                   /\ coverIsGenerating' = FALSE
              ELSE UNCHANGED <<coverLetter, coverIsGenerating>>
    /\ inflight' = Settled(req)
    /\ UNCHANGED <<normVars, scoreVars, salarySucceeded,
                   activeTab, crashed, coverJobRequirement,
                   analysisVars, interviewVars, salaryVars, chatVars>>

----------------------------------------------------------------------------
(* InterviewPrepSection *)

InterviewRequired == {"technical_questions", "behavioral_questions"}
InterviewOptional == {"key_talking_points", "questions_to_ask"}

\* data: the keys the JSON object has; each key there is an array of
\* one raw string
InterviewPayloads == [keys : SUBSET (InterviewRequired \cup InterviewOptional)]

\* data.<key>.map(cleanText), for a key that is there
interviewField(data, key) == <<interviewCleanText(SampleRaw)>>

\* the validation left out and every field defaulting to [] when absent
interviewTryDefaults(outcome, prev) ==
    IF outcome.status # "ok" THEN Ended(prev, {}, TRUE)
    ELSE Ended([kind |-> "prep",
                fields |-> [k \in InterviewRequired \cup InterviewOptional |->
                              IF k \in outcome.data.keys
                              THEN interviewField(outcome.data, k)
                              ELSE <<>>]],
               {"success"}, FALSE)

\* the try block of handleGenerate after the fetch
interviewTry(outcome, prev) ==
    IF outcome.status # "ok" THEN Ended(prev, {}, TRUE)
    ELSE IF ~(InterviewRequired \subseteq outcome.data.keys)
         THEN Ended(prev, {}, TRUE)  \* "API returned incomplete data structure."
    ELSE Ended([kind |-> "prep",
                fields |-> [k \in InterviewRequired \cup InterviewOptional |->
                              IF k \in outcome.data.keys
                              THEN interviewField(outcome.data, k)
                              ELSE <<>>]],
               {"success"}, FALSE)

setInterviewJobRequirement(jd) ==
    /\ ~crashed /\ activeTab = "interview"
    /\ interviewJobRequirement' = jd
    /\ UNCHANGED <<normVars, scoreVars, salarySucceeded,
                   activeTab, crashed, interviewIsGenerating, prepData,
                   analysisVars, coverVars, salaryVars, chatVars, inflight, event>>

\* the button is disabled while isGenerating or while the field is blank
interviewHandleGenerate ==
    /\ ~crashed /\ activeTab = "interview"
    /\ ~(interviewIsGenerating \/ Blank(interviewJobRequirement))
    /\ IF Blank(interviewJobRequirement)
       THEN /\ event' = Submitted("interview", "rejected", {"validation"})
            /\ UNCHANGED <<interviewIsGenerating, prepData, inflight>>
       ELSE /\ Pending < MaxInFlight
            /\ interviewIsGenerating' = TRUE
            /\ prepData' = Null
            /\ inflight' = Fetch("interview", NoQuery)
            /\ event' = Submitted("interview", "accepted", {})
    /\ UNCHANGED <<normVars, scoreVars, salarySucceeded,
                   activeTab, crashed, interviewJobRequirement,
                   analysisVars, coverVars, salaryVars, chatVars>>

interviewResponse(req, outcome) ==
    /\ ~crashed /\ BagIn(req, inflight) /\ req.sec = "interview"
    /\ LET try == interviewTry(outcome, prepData)
       IN  /\ event' = Responded(req, outcome, Caught(try))
           /\ IF req.live
              THEN /\ prepData' = try.result
                   /\ interviewIsGenerating' = FALSE
              ELSE UNCHANGED <<prepData, interviewIsGenerating>>
    /\ inflight' = Settled(req)
    /\ UNCHANGED <<normVars, scoreVars, salarySucceeded,
                   activeTab, crashed, interviewJobRequirement,
                   analysisVars, coverVars, salaryVars, chatVars>>

----------------------------------------------------------------------------
(* SalaryInsightsSection *)

SalaryKeys == {"estimated_range", "factors", "negotiation_tips"}

\* data: the keys the JSON object has; estimated_range is one raw string,
\* the other two are arrays of one raw string
SalaryPayloads == [keys : SUBSET SalaryKeys]

\* the try block of fetchInsights after the fetch
salaryTry(outcome, prev) ==
    IF outcome.status # "ok" THEN Ended(prev, {}, TRUE)
    ELSE IF ~(SalaryKeys \subseteq outcome.data.keys)
         THEN Ended(prev, {}, TRUE)  \* "API returned incomplete data structure."
    ELSE Ended([kind |-> "insights",
                fields |-> [estimated_range |-> salaryCleanText(SampleRaw),
                            factors |-> <<salaryCleanText(SampleRaw)>>,
                            negotiation_tips |-> <<salaryCleanText(SampleRaw)>>]],
               {}, FALSE)

salaryResponse(req, outcome) ==
    /\ ~crashed /\ BagIn(req, inflight) /\ req.sec = "salary"
    /\ LET try == salaryTry(outcome, insights)
       IN  /\ event' = Responded(req, outcome, Caught(try))
           /\ IF req.live
              THEN /\ insights' = try.result
                   /\ salaryIsLoading' = FALSE
              ELSE UNCHANGED <<insights, salaryIsLoading>>
    /\ salarySucceeded' = (salarySucceeded \/ ~salaryTry(outcome, insights).threw)
    /\ inflight' = Settled(req)
    /\ UNCHANGED <<normVars, scoreVars, activeTab, crashed,
                   analysisVars, coverVars, interviewVars, chatVars>>

----------------------------------------------------------------------------
(* ChatSection *)

WelcomeMessage == [role |-> "assistant", content |-> <<"Hello!">>]

\* the question of a badge shown (one of initialSuggestedQuestions.slice(0, 4))
QuickQuestions == {<<"K">>}

ChatPayloads == {[kind |-> "noResponse"], [kind |-> "reply", response |-> SampleRaw]}

\* a welcome effect without its messages.length === 0 condition
welcomeEffectEveryRender(msgs) == <<WelcomeMessage>> \o msgs

\* the effect that follows every render: an empty history gets the welcome
welcomeEffect(msgs) == IF msgs = <<>> THEN <<WelcomeMessage>> ELSE msgs

\* the try block of handleSend after the fetch, prev the history
chatTry(outcome, prev) ==
    IF outcome.status # "ok" THEN Ended(prev, {}, TRUE)
    ELSE LET raw == IF outcome.data.kind = "reply"
                    THEN outcome.data.response ELSE <<>>
         IN  Ended(Append(prev, [role |-> "assistant",
                                 content |-> cleanResponseFormatting(raw)]),
                   {}, FALSE)

\* the catch block of handleSend: prev.slice(0, -1)
chatCatch(prev) == SubSeq(prev, 1, Len(prev) - 1)

\* the Input is disabled while isLoading
setInput(v) ==
    /\ ~crashed /\ activeTab = "chat" /\ ~chatIsLoading
    /\ input' = v
    /\ UNCHANGED <<normVars, scoreVars, salarySucceeded,
                   activeTab, crashed, messages, chatIsLoading,
                   analysisVars, coverVars, interviewVars, salaryVars, inflight, event>>

\* handleSend from textToSend on
sendMessage(textToSend) ==
    IF textToSend = <<>>
    THEN UNCHANGED <<input, messages, chatIsLoading, inflight, event>>
    ELSE /\ Pending < MaxInFlight
         /\ Len(messages) < MaxMessages
         /\ input' = <<>>
         /\ messages' = Append(messages, [role |-> "user", content |-> textToSend])
         /\ chatIsLoading' = TRUE
         /\ inflight' = Fetch("chat", textToSend)
         /\ event' = Submitted("chat", "accepted", {})

\* handleSend() from the Enter key or the Send button: both are disabled
\* while isLoading
handleSend ==
    /\ ~crashed /\ activeTab = "chat" /\ ~chatIsLoading
    /\ sendMessage(Trim(input))
    /\ UNCHANGED <<normVars, scoreVars, salarySucceeded,
                   activeTab, crashed,
                   analysisVars, coverVars, interviewVars, salaryVars>>

\* a badge is clicked: handleSend(question); the badges are never disabled
handleQuickQuestion(question) ==
    /\ ~crashed /\ activeTab = "chat" /\ Len(messages) > 0
    /\ sendMessage(question)
    /\ UNCHANGED <<normVars, scoreVars, salarySucceeded,
                   activeTab, crashed,
                   analysisVars, coverVars, interviewVars, salaryVars>>

chatResponse(req, outcome) ==
    /\ ~crashed /\ BagIn(req, inflight) /\ req.sec = "chat"
    /\ LET try == chatTry(outcome, messages)
       IN  /\ event' = Responded(req, outcome, Caught(try))
           /\ IF req.live
              THEN /\ messages' = IF try.threw
                                  THEN welcomeEffect(chatCatch(messages))
                                  ELSE try.result
                   /\ chatIsLoading' = FALSE
              ELSE UNCHANGED <<messages, chatIsLoading>>
    /\ inflight' = Settled(req)
    /\ UNCHANGED <<normVars, scoreVars, salarySucceeded,
                   activeTab, crashed, input,
                   analysisVars, coverVars, interviewVars, salaryVars>>

\* the New Chat button is shown when messages.length > 1
handleClearChat ==
    /\ ~crashed /\ activeTab = "chat" /\ Len(messages) > 1
    /\ messages' = welcomeEffect(<<>>)
    /\ event' = [op |-> "clear", sec |-> "chat", live |-> TRUE,
                 outcome |-> [status |-> "none"], toasts |-> {"info"}]
    /\ UNCHANGED <<normVars, scoreVars, salarySucceeded,
                   activeTab, crashed, input, chatIsLoading,
                   analysisVars, coverVars, interviewVars, salaryVars, inflight>>

----------------------------------------------------------------------------
(* Home: the tabs.  Only the active tab's section is mounted; a section    *)
(* that is mounted starts from its useState values, and what a request of  *)
(* an unmounted section sets is dropped (its toasts are still shown).      *)

SectionsUnmounted ==
    /\ analysisJobRequirement = <<>> /\ isAnalyzing = FALSE /\ analysisResult = Null
    /\ coverJobRequirement = <<>> /\ coverIsGenerating = FALSE /\ coverLetter = <<>>
    /\ interviewJobRequirement = <<>> /\ interviewIsGenerating = FALSE
    /\ prepData = Null
    /\ salaryIsLoading = TRUE /\ insights = Null
    /\ messages = <<>> /\ input = <<>> /\ chatIsLoading = FALSE

\* <Tabs value={activeTab} onValueChange={setActiveTab}>
setActiveTab(tab) ==
    /\ ~crashed /\ tab # activeTab
    /\ tab = "salary" => Pending < MaxInFlight
    /\ activeTab' = tab
    /\ analysisJobRequirement' = <<>> /\ isAnalyzing' = FALSE
    /\ analysisResult' = Null
    /\ coverJobRequirement' = <<>> /\ coverIsGenerating' = FALSE
    /\ coverLetter' = <<>>
    /\ interviewJobRequirement' = <<>> /\ interviewIsGenerating' = FALSE
    /\ prepData' = Null
    /\ salaryIsLoading' = TRUE /\ insights' = Null
    /\ messages' = IF tab = "chat" THEN welcomeEffect(<<>>) ELSE <<>>
    /\ input' = <<>> /\ chatIsLoading' = FALSE
    /\ inflight' = IF tab = "salary"
                   THEN Orphaned (+) SetToBag({[sec |-> "salary", live |-> TRUE,
                                                query |-> NoQuery]})
                   ELSE Orphaned
    /\ event' = [op |-> "tab", sec |-> tab, live |-> TRUE,
                 outcome |-> [status |-> "none"], toasts |-> {}]
    /\ UNCHANGED <<normVars, scoreVars, salarySucceeded,
                   crashed>>

----------------------------------------------------------------------------
(* The specifications *)

NormalizerIdle ==
    /\ text = <<>> /\ variant = "none" /\ out = <<>> /\ again = <<>>
    /\ stage = "raw"

ScorerIdle == scoreIn = [kind |-> "none"] /\ scoreOut = [kind |-> "none"]

PageLoaded ==
    /\ activeTab = "analysis"
    /\ crashed = FALSE
    /\ SectionsUnmounted
    /\ inflight = EmptyBag
    /\ event = NoEvent
    /\ salarySucceeded = FALSE

Init ==
    /\ NormalizerIdle
    /\ ScorerIdle
    /\ PageLoaded

Next ==
    \/ \E jd \in JobTexts : setAnalysisJobRequirement(jd)
    \/ handleAnalyze
    \/ \E req \in BagToSet(inflight) :
          \E o \in Outcomes(AnalysisPayloads) : analysisResponse(req, o)
    \/ \E jd \in JobTexts : setCoverJobRequirement(jd)
    \/ coverHandleGenerate
    \/ \E req \in BagToSet(inflight) :
          \E o \in Outcomes(CoverPayloads) : coverResponse(req, o)
    \/ \E jd \in JobTexts : setInterviewJobRequirement(jd)
    \/ interviewHandleGenerate
    \/ \E req \in BagToSet(inflight) :
          \E o \in Outcomes(InterviewPayloads) : interviewResponse(req, o)
    \/ \E req \in BagToSet(inflight) :
          \E o \in Outcomes(SalaryPayloads) : salaryResponse(req, o)
    \/ \E v \in JobTexts : setInput(v)
    \/ handleSend
    \/ \E q \in QuickQuestions : handleQuickQuestion(q)
    \/ \E req \in BagToSet(inflight) :
          \E o \in Outcomes(ChatPayloads) : chatResponse(req, o)
    \/ handleClearChat
    \/ \E tab \in Sections : setActiveTab(tab)

\* the page: the user's actions and the responses, in any order
Spec == Init /\ [][Next]_vars

\* a section hands the raw string to its normalizer; again is what the
\* same normalizer makes of its own output
Normalize(v) ==
    /\ stage = "raw"
    /\ variant' = v
    /\ out' = Normalized(v, text)
    /\ again' = IF v \in InlineVariants
                THEN Normalized(v, Normalized(v, text)) ELSE <<>>
    /\ stage' = "done"
    /\ UNCHANGED <<text, scoreVars, pageVars>>

InitNorm ==
    /\ IsInput(text)
    /\ variant = "none" /\ out = <<>> /\ again = <<>> /\ stage = "raw"
    /\ ScorerIdle
    /\ PageLoaded

NextNorm == \E v \in Variants : Normalize(v)

\* every normalizer applied to every string of the bounded alphabet
SpecNorm == InitNorm /\ [][NextNorm]_vars

InitScore ==
    /\ NormalizerIdle
    /\ IsScoreInput(scoreIn)
    /\ scoreOut = [kind |-> "none"]
    /\ PageLoaded

NextScore ==
    \/ renderScore
    \/ combineScore
    \/ showMatchRate

\* every score, score breakdown and keyword count, scored and shown
SpecScore == InitScore /\ [][NextScore]_vars

----------------------------------------------------------------------------
(* Properties of the normalizers, under SpecNorm *)

NormalizedInline == stage = "done" /\ variant \in InlineVariants

\* the characters of s that are in class, in order
Only(class, s) == SelectSeq(s, LAMBDA c : c \in class)

RECURSIVE SubsequenceFrom(_, _, _, _)
SubsequenceFrom(a, i, b, j) ==
    IF i > Len(a) THEN TRUE
    ELSE IF j > Len(b) THEN FALSE
    ELSE IF a[i] = b[j] THEN SubsequenceFrom(a, i + 1, b, j + 1)
    ELSE SubsequenceFrom(a, i, b, j + 1)

\* a is b with some characters deleted
IsSubsequence(a, b) == SubsequenceFrom(a, 1, b, 1)

\* C1: an inline normalizer applied to its own output returns that output
\* unchanged: normalizeInline(normalizeInline(s)) = normalizeInline(s).
C1_Idempotent == NormalizedInline => again = out

DigitsInsideWords(s) ==
    \A i \in 1..Len(s) :
        s[i] \in Digits => i > 1 /\ s[i - 1] \in Letters \cup Digits

C8_OutputIsSubsequence == NormalizedInline => IsSubsequence(out, text)

\* C8 witness: a heading, list or emphasis marker was removed and text is
\* left
C8_Witness ==
    /\ NormalizedInline
    /\ \E i \in 1..Len(text) : text[i] \in {"#", "-", "*"}
    /\ out # <<>>
    /\ Len(out) < Len(text)
    /\ \A i \in 1..Len(out) : out[i] \notin {"#", "-", "*"}

\* C9: the output of every normalizer variant, the block one included,
\* holds no "*" and no "_".
C9_NoEmphasisCharacterLeft ==
    stage = "done" => \A i \in 1..Len(out) : out[i] \notin {"*", "_"}

\* text is one line of plain text that starts with a run of "-", "+" or
\* digits, then an optional ".", then directly a character that is not
\* whitespace
MarkerWithoutWhitespace(s) ==
    LET r == RunLen(s, 1, ListMarkerChars)
        d == IF Is(s, r + 1, ".") THEN 1 ELSE 0
    IN  /\ r > 0
        /\ r + d < Len(s)
        /\ s[r + d + 1] \notin Whitespace
        /\ \A i \in 1..Len(s) : s[i] \notin {"*", "_", "\n", "\r"}
        /\ s[Len(s)] \notin Whitespace

\* C10: the list-marker rule strips the leading run of a line only when the
\* run (and its optional ".") is followed by whitespace: a line whose run
\* is followed directly by another character is left unchanged.
C10_ListMarkerNeedsWhitespace ==
    (NormalizedInline /\ MarkerWithoutWhitespace(text)) => out = text

\* the heading rule is the only rule with something to remove in s: no
\* emphasis, list or quote marker, and no three line breaks in a row
HeadingMarkupOnly(s) ==
    /\ \A i \in 1..Len(s) : s[i] \in Letters \cup {"#", " ", "\n", "\r"}
    /\ \A i \in 1..Len(s) : NewlinesMatch(s, i) = 0

RECURSIVE HeadingsStrippedByLine(_, _)
\* s from s[i] on, each line taken by itself: a line that begins with "#"
\* loses that run of "#" and the blanks after it on the line, and every
\* other character stays, the line breaks included
HeadingsStrippedByLine(s, i) ==
    IF i > Len(s) THEN <<>>
    ELSE IF AtLineStart(s, i) /\ s[i] = "#"
         THEN LET h == RunLen(s, i, {"#"})
              IN  HeadingsStrippedByLine(s, i + h + RunLen(s, i + h, {" "}))
         ELSE <<s[i]>> \o HeadingsStrippedByLine(s, i + 1)

\* C11: the heading rule removes, from every line that begins with "#",
\* that run of "#" and the whitespace after it on that line, and changes no
\* other line: where only the heading rule has something to remove, the
\* output is the input stripped line by line, then trimmed.
C11_HeadingStrippedPerLine ==
    (NormalizedInline /\ HeadingMarkupOnly(text))
        => out = Trim(HeadingsStrippedByLine(text, 1))

NormalizedBlock == stage = "done" /\ variant = "cover"

\* the tags of h open and close one paragraph after the other
ParagraphsWellFormed(h) ==
    \A i \in 1..Len(h) :
        /\ h[i] = P_OPEN <=> (i = 1 \/ h[i - 1] = P_CLOSE)
        /\ h[i] = P_CLOSE <=> (i = Len(h) \/ h[i + 1] = P_OPEN)

RECURSIVE ParagraphContents(_, _)
\* what stands between the tags of each paragraph of h, from the tag h[i]
ParagraphContents(h, i) ==
    IF i > Len(h) THEN <<>>
    ELSE LET close == CHOOSE j \in i..Len(h) :
                          h[j] = P_CLOSE /\ \A k \in i..(j - 1) : h[k] # P_CLOSE
         IN  <<SubSeq(h, i + 1, close - 1)>> \o ParagraphContents(h, close + 1)

RECURSIVE LinesFrom(_, _, _)
\* the lines of s, a line ending at each "\n"
LinesFrom(s, i, cur) ==
    IF i > Len(s) THEN <<cur>>
    ELSE IF s[i] = "\n" THEN <<cur>> \o LinesFrom(s, i + 1, <<>>)
    ELSE LinesFrom(s, i + 1, Append(cur, s[i]))

\* the lines of s once its emphasis markers are gone
PlainLines(s) == LinesFrom(SelectSeq(s, LAMBDA c : c \notin {"*", "_"}), 1, <<>>)

BlankLine(l) == \A k \in 1..Len(l) : l[k] \in Whitespace

\* the lines with text, and those of them that start a paragraph: the first
\* line, or a line after a blank one
TextLines(ls) == {k \in 1..Len(ls) : ~BlankLine(ls[k])}
FirstLines(ls) == {k \in TextLines(ls) : k = 1 \/ BlankLine(ls[k - 1])}

BreakMarkers(h) == Len(SelectSeq(h, LAMBDA c : c = "<br>"))

\* the characters of h that are neither whitespace nor emphasis nor markup
Printed(h) ==
    SelectSeq(h, LAMBDA c : c \notin Whitespace \cup {"*", "_", "<br>", P_OPEN, P_CLOSE})

\* C12: textToHtmlParagraphs returns one paragraph for each block of lines
\* of the emphasis-stripped text that blank lines separate, in input order
\* and with the text unchanged; every line break left inside a block is one
\* break marker; no paragraph is empty or whitespace only and none holds a
\* line break.
C12_ParagraphsSplitAtBlankLines ==
    NormalizedBlock =>
        LET ps == ParagraphContents(out, 1)
            ls == PlainLines(text)
        IN  /\ ParagraphsWellFormed(out)
            /\ Len(ps) = Cardinality(FirstLines(ls))
            /\ BreakMarkers(out) = Cardinality(TextLines(ls)) - Cardinality(FirstLines(ls))
            /\ Printed(out) = Printed(text)
            /\ \A k \in 1..Len(ps) :
                   /\ \E j \in 1..Len(ps[k]) : ps[k][j] \notin Whitespace \cup {"<br>"}
                   /\ \A j \in 1..Len(ps[k]) : ps[k][j] # "\n"

\* C12 witness: the scenario "**Bold** text", four line breaks, "Next para"
\* gave exactly the two paragraphs "Bold text" and "Next para"
C12_Witness ==
    /\ NormalizedBlock
    /\ text = BoldScenario
    /\ out = <<P_OPEN, "a", " ", "a", P_CLOSE, P_OPEN, "a", " ", "a", P_CLOSE>>

NormalizedChat == stage = "done" /\ variant = "chat"

\* three line breaks ("\n" or "\r\n") in a row start at s[i]
TripleBreakAt(s, i) ==
    LET a == LineBreakAt(s, i)
        b == LineBreakAt(s, i + a)
        c == LineBreakAt(s, i + a + b)
    IN  a > 0 /\ b > 0 /\ c > 0

\* s is letters, blanks and "\n" only: no rule but the line-break rule and
\* the trim has anything to change
PlainWithBreaks(s) == \A i \in 1..Len(s) : s[i] \in Letters \cup {" ", "\n"}

RECURSIVE RunsCollapsed(_, _)
\* s from s[i] on, every run of three or more "\n" written as two
RunsCollapsed(s, i) ==
    IF i > Len(s) THEN <<>>
    ELSE IF s[i] = "\n"
         THEN LET r == RunLen(s, i, {"\n"})
              IN  (IF r >= 3 THEN <<"\n", "\n">> ELSE SubSeq(s, i, i + r - 1))
                      \o RunsCollapsed(s, i + r)
         ELSE <<s[i]>> \o RunsCollapsed(s, i + 1)

----------------------------------------------------------------------------
(* Properties of the page, under Spec *)

JobSections == {"analysis", "cover-letter", "interview"}

JobRequirementOf(sec) ==
    CASE sec = "analysis"     -> analysisJobRequirement
      [] sec = "cover-letter" -> coverJobRequirement
      [] sec = "interview"    -> interviewJobRequirement

\* the last handler run was the response to a request of sec, whose
\* section was still mounted, and the response was OK
OkResponse(sec) ==
    /\ event.op = "response" /\ event.sec = sec /\ event.live
    /\ event.outcome.status = "ok"

\* C2: an analysis response whose first result has no keyword_analysis
\* ends with the failure toast, without the success toast, and is not
\* stored in analysisResult.
C2_MissingKeywordAnalysisIsFailure ==
    (/\ OkResponse("analysis")
     /\ event.outcome.data.kind = "results"
     /\ event.outcome.data.results # <<>>
     /\ ~event.outcome.data.results[1].keyword_analysis)
        => /\ "failure" \in event.toasts
           /\ "success" \notin event.toasts
           /\ analysisResult.kind # "result"

\* the step is a submit handler run in a section whose job description is
\* empty or whitespace only
BlankSubmitStep ==
    /\ event' # event
    /\ event'.op = "submit"
    /\ event'.sec \in JobSections
    /\ Trim(JobRequirementOf(event'.sec)) = <<>>

\* C3: submitting an empty or whitespace-only job description sends no
\* request, sets no loading flag, leaves every result as it was, and shows
\* the validation toast.
C3_BlankSubmitRejected ==
    [][BlankSubmitStep =>
          /\ UNCHANGED <<inflight, isAnalyzing, coverIsGenerating,
                         interviewIsGenerating, analysisResult, coverLetter,
                         prepData>>
          /\ event'.toasts = {"validation"}]_vars

\* C3 witness: a whitespace-only job description was submitted while a
\* result was shown: the toast is up, nothing is loading or in flight, and
\* the result is still there
C3_Witness ==
    /\ event.op = "submit" /\ event.sec = "analysis"
    /\ event.toasts = {"validation"}
    /\ analysisJobRequirement # <<>> /\ Trim(analysisJobRequirement) = <<>>
    /\ ~isAnalyzing /\ inflight = EmptyBag
    /\ analysisResult.kind = "result"

\* C4: once a new analysis is submitted the result of the previous one is
\* no longer held: no result is held while an analysis is under way.
C4_PreviousResultDiscarded ==
    (activeTab = "analysis" /\ isAnalyzing) => analysisResult.kind # "result"

\* C5: an OK interview or salary response without one of its required keys
\* stores nothing (the result stays null) and shows the failure toast and
\* no success toast; an OK interview response with its required keys is
\* stored whole, an absent optional key as the empty sequence.
C5_IncompleteResponseStoresNothing ==
    /\ (OkResponse("interview")
          /\ ~(InterviewRequired \subseteq event.outcome.data.keys))
        => /\ prepData = Null
           /\ event.toasts = {"failure"}
    /\ (OkResponse("salary") /\ ~(SalaryKeys \subseteq event.outcome.data.keys))
        => /\ insights = Null
           /\ event.toasts = {"failure"}
    /\ (OkResponse("interview")
          /\ InterviewRequired \subseteq event.outcome.data.keys)
        => /\ prepData.kind = "prep"
           /\ \A k \in InterviewRequired : prepData.fields[k] # <<>>
           /\ \A k \in InterviewOptional :
                  k \notin event.outcome.data.keys => prepData.fields[k] = <<>>
    /\ prepData.kind = "prep" =>
           \A k \in InterviewRequired : prepData.fields[k] # <<>>

\* C5 witness: an interview response came with one required and one
\* optional key only and was refused
C5_Witness ==
    /\ OkResponse("interview")
    /\ event.outcome.data.keys = {"technical_questions", "key_talking_points"}
    /\ prepData = Null
    /\ ~interviewIsGenerating
    /\ event.toasts = {"failure"}

\* the response is a failure: the fetch rejected, the status was not OK, or
\* the payload is not what the section needs
FailedOutcome(sec, o) ==
    \/ o.status # "ok"
    \/ /\ sec = "analysis"
       /\ \/ o.data.kind = "noResults"
          \/ o.data.results = <<>>
          \/ ~o.data.results[1].keyword_analysis
    \/ sec = "cover-letter" /\ o.data.cover_letter = <<>>
    \/ sec = "interview" /\ ~(InterviewRequired \subseteq o.data.keys)
    \/ sec = "salary" /\ ~(SalaryKeys \subseteq o.data.keys)
    \/ sec = "chat" /\ o.data.kind = "noResponse"

\* C6: every failed request of every section ends with the failure toast
\* and without the success toast.
C6_FailedRequestShowsFailure ==
    (event.op = "response" /\ FailedOutcome(event.sec, event.outcome))
        => /\ "failure" \in event.toasts
           /\ "success" \notin event.toasts

\* the step opens the tab of sec straight from the Analysis tab
OpensFromAnalysis(sec) == activeTab = "analysis" /\ activeTab' = sec

\* C14: the job description entered in the Analysis tab is synced with the
\* Cover Letter and Interview tabs: when either tab is opened from the
\* Analysis tab, its job-description field holds the text the Analysis
\* field held.
C14_JobDescriptionSynced ==
    [][/\ OpensFromAnalysis("cover-letter")
          => coverJobRequirement' = analysisJobRequirement
       /\ OpensFromAnalysis("interview")
          => interviewJobRequirement' = analysisJobRequirement]_vars

\* C15: once a salary request has succeeded, opening the Salary tab again
\* shows the insights from the cache: the step issues no request and the
\* section is not loading.
C15_SalaryFromCache ==
    [][(salarySucceeded /\ activeTab # "salary" /\ activeTab' = "salary")
          => /\ BagCardinality(inflight') = Pending
             /\ ~salaryIsLoading'
             /\ insights'.kind = "insights"]_vars

\* C16: no request is retried: a step issues at most one request, and only
\* a user action (a submit) or the mount of the Salary section (its tab
\* opened) issues one; the step that ends a request, failed or not, issues
\* none.
C16_NoRetry ==
    [][BagCardinality(inflight') > Pending
          => /\ BagCardinality(inflight') = Pending + 1
             /\ \/ event'.op = "submit" /\ event'.outcome.status = "accepted"
                \/ event'.op = "tab" /\ activeTab # "salary" /\ activeTab' = "salary"]_vars

\* C16 witness: a request has failed, its failure toast is up and no
\* request is in flight
C16_Witness ==
    /\ event.op = "response"
    /\ event.outcome.status \in {"networkError", "notOk"}
    /\ event.toasts = {"failure"}
    /\ inflight = EmptyBag

----------------------------------------------------------------------------
(* Properties of the match result, under SpecScore *)

\* the band a colour class stands for, 3 the highest
BandOf(class) ==
    CASE class \in {"text-green-600 dark:text-green-400", "bg-green-600"}   -> 3
      [] class \in {"text-yellow-600 dark:text-yellow-400", "bg-yellow-600"} -> 2
      [] class \in {"text-orange-600 dark:text-orange-400", "bg-orange-600"} -> 1
      [] class \in {"text-red-600 dark:text-red-400", "bg-red-600"}          -> 0

\* the band the thresholds 85, 70 and 50 give
ThresholdBand(score) ==
    Cardinality({t \in {85, 70, 50} : score >= t})

\* C17: the band shown for a score is the one the thresholds 85, 70 and 50
\* give, getScoreColor and getProgressColor agree on it, and the band of
\* the next higher score is not lower.
C17_BandsMonotonic ==
    scoreOut.kind = "colors" =>
        /\ BandOf(scoreOut.scoreColor) = ThresholdBand(scoreIn.score)
        /\ BandOf(scoreOut.progressColor) = BandOf(scoreOut.scoreColor)
        /\ scoreIn.score < 100 =>
               BandOf(getScoreColor(scoreIn.score + 1)) >= BandOf(scoreOut.scoreColor)

\* C17 witness: the score 85, the lowest of the highest band, is shown
\* green by both
C17_Witness ==
    /\ scoreOut.kind = "colors"
    /\ scoreIn.score = 85
    /\ scoreOut.scoreColor = "text-green-600 dark:text-green-400"
    /\ scoreOut.progressColor = "bg-green-600"

\* C18: for every valid breakdown the overall score is within 0..100, is
\* the integer nearest to the 60% / 30% / 10% combination, and does not
\* decrease when one sub-score is raised by one and the others are kept.
C18_ScoreBoundedAndMonotonic ==
    scoreOut.kind = "score" =>
        LET weighted == 6 * scoreIn.skill_match + 3 * scoreIn.semantic_similarity
                            + 10 * scoreIn.keyword_density_bonus
            tenfold == 10 * scoreOut.score
        IN  /\ scoreOut.score \in 0..100
            /\ tenfold - weighted \in -5..5
            /\ scoreIn.skill_match < 100 =>
                   overallScore([scoreIn EXCEPT !.skill_match = @ + 1]) >= scoreOut.score
            /\ scoreIn.semantic_similarity < 100 =>
                   overallScore([scoreIn EXCEPT !.semantic_similarity = @ + 1])
                       >= scoreOut.score
            /\ scoreIn.keyword_density_bonus < 10 =>
                   overallScore([scoreIn EXCEPT !.keyword_density_bonus = @ + 1])
                       >= scoreOut.score

\* C18 witness: a breakdown whose combination lies half way between two
\* integers (4.5) was scored 5 or 4
C18_Witness ==
    /\ scoreOut.kind = "score"
    /\ scoreIn.skill_match = 5 /\ scoreIn.semantic_similarity = 5
    /\ scoreIn.keyword_density_bonus = 0
    /\ scoreOut.score = IF scoreIn.rounding = "halfUp" THEN 5 ELSE 4

ChatFailureStep(req) ==
    /\ req.sec = "chat" /\ req.live
    /\ BagIn(req, inflight) /\ inflight' = Settled(req)
    /\ event'.op = "response" /\ event'.outcome.status # "ok"

\* msgs without its k-th message
WithoutMessage(msgs, k) == SubSeq(msgs, 1, k - 1) \o SubSeq(msgs, k + 1, Len(msgs))

\* the user messages of the history that carry the query of req
UserMessagesOf(req) ==
    {k \in 1..Len(messages) :
        messages[k].role = "user" /\ messages[k].content = req.query}

\* C20: when a chat request fails, the user message appended for it, and
\* only that message, is removed from the history, whatever was sent,
\* answered or cleared while it was in flight; when that message is no
\* longer there, the history is left as it is.
C20_FailureRemovesOwnMessage ==
    [][\A req \in BagToSet(inflight) :
          ChatFailureStep(req) =>
              IF UserMessagesOf(req) = {}
              THEN messages' = messages
              ELSE \E k \in UserMessagesOf(req) :
                       messages' = WithoutMessage(messages, k)]_vars

\* the chat requests of the mounted chat section that await their response
LiveChatRequests ==
    {r \in BagToSet(inflight) : r.sec = "chat" /\ r.live}

\* C21: isLoading of the chat section is true in every state in which a
\* chat request of the section is in flight.
C21_LoadingWhileInFlight ==
    (activeTab = "chat" /\ LiveChatRequests # {}) => chatIsLoading

\* C22: in the chat history every assistant message other than the welcome
\* message that opens it stands directly after a user message.
C22_ReplyFollowsQuestion ==
    \A k \in 2..Len(messages) :
        messages[k].role = "assistant" => messages[k - 1].role = "user"

\* the positions of the chat history that hold the welcome message
WelcomePositions == {k \in 1..Len(messages) : messages[k] = WelcomeMessage}

AnalysisShown(result) == IF result.kind = "result" THEN result ELSE Null

\* a step in which an analysis attempt of the mounted section ends with the
\* failure notification
AnalysisFailureStep ==
    /\ activeTab = "analysis"
    /\ event'.op = "response" /\ event'.sec = "analysis" /\ event'.live
    /\ Pending' < Pending
    /\ "failure" \in event'.toasts

\* C24: an analysis attempt that ends with the failure notification leaves
\* analysisResult as it was before the attempt.
C24_FailureKeepsResult ==
    [][AnalysisFailureStep =>
           AnalysisShown(analysisResult') = AnalysisShown(analysisResult)]_vars

\* every line of s that is not blank holds a letter: no line is markers only
LinesHoldText(s) ==
    LET ls == LinesFrom(s, 1, <<>>)
    IN  \A k \in TextLines(ls) : \E j \in 1..Len(ls[k]) : ls[k][j] \in Letters

RECURSIVE ParagraphStarts(_, _)
\* for each line with text of ls from ls[k] on, in order: does a blank line
\* stand directly before it
ParagraphStarts(ls, k) ==
    IF k > Len(ls) THEN <<>>
    ELSE IF BlankLine(ls[k]) THEN ParagraphStarts(ls, k + 1)
    ELSE <<k > 1 /\ BlankLine(ls[k - 1])>> \o ParagraphStarts(ls, k + 1)

\* C25: the chat normalizer keeps the lines of text apart (as many lines
\* with text come out as went in), and a line of text that a blank line
\* separates from the line of text before it is still separated from it by
\* a blank line in the output.
C25_ParagraphBreaksKept ==
    (NormalizedChat /\ LinesHoldText(text)) =>
        LET before == ParagraphStarts(LinesFrom(text, 1, <<>>), 1)
            after  == ParagraphStarts(LinesFrom(out, 1, <<>>), 1)
        IN  /\ Len(after) = Len(before)
            /\ \A n \in 2..Len(before) : before[n] => after[n]

\* C26: the HTML of textToHtmlParagraphs holds no "<" but those of the
\* paragraph and line-break tags the function writes, which are the
\* fragments P_OPEN, P_CLOSE and "<br>": no "<" of the text opens a tag.
C26_NoMarkupFromInput ==
    NormalizedBlock => \A i \in 1..Len(out) : out[i] # "<"

====
